---- MODULE Spec2Model ----
(***************************************************************************)
(* The seed finder: the LCG generator and simulateGeneric                  *)
(* (src/src/simulator.js:46-77), the worker loop (worker.js,               *)
(* src/src/simulator.js:83-125) and the streaming entrypoint with its      *)
(* serial and parallel paths (index.js, src/src/simulator.js:127-316).     *)
(*                                                                         *)
(* Numbers are scaled so that the state space is finite: a word has        *)
(* WordBits bits instead of 32, and the seed cap, the serial threshold,    *)
(* the progress interval and the numChecks cap are small numbers that keep *)
(* the order of the program's constants                                    *)
(* (SERIAL_LIMIT < MAX_SAFE_SEEDS < 2^WordBits).                           *)
(*                                                                         *)
(* A probability is kept in units of 1/Modulus: the float nextFloat()      *)
(* returns is state / Modulus, so `draw < p` is `state < p * Modulus`.     *)
(***************************************************************************)
EXTENDS Integers, Sequences, FiniteSets, TLC

\* ------------------------------------------------------------------ bounds
\* width of a machine word (32 in the program: `>>> 0`, Math.imul, / 4294967296)
WordBits == 4
\* MAX_SAFE_SEEDS = 5_000_000 in the program (simulator.js:148), scaled
MAX_SAFE_SEEDS == 5
\* the serial threshold, 100000 in the program (simulator.js:213), scaled
SERIAL_LIMIT == 2
\* the worker's progressInterval, 10000 in the program (simulator.js:101), scaled
progressInterval == 2
\* the numChecks clamp, 10000 in the program (simulator.js:69), scaled
NUMCHECKS_CAP == 3
\* largest --step given on the command line
MaxStep == 2
\* largest --workers given on the command line
MaxRequested == 2
\* largest os.cpus().length
MaxCpus == 3
\* largest numChecks of a model the entrypoint builds
MaxModelChecks == 2
\* calls of simulateGeneric made after the first one, in the same thread
MaxCalls == 1
\* faults (a throwing evaluation, a crashing worker) injected into one run
MaxFaults == 1
\* iterations past maxSeeds the serial-only entrypoint's loop is followed for
LegacyOverrun == 2
\* largest retries given to fetchWithTimeout on its own
MaxRetries == 3
\* the response size limit of fetchWithTimeout (5_000_000), scaled
MAX_FETCH_LEN == 2
\* largest count handed to the partitioner on its own
PartMaxCount == 10

\* ------------------------------------------------------- program constants
LCG_A == 1664525
LCG_C == 1013904223
WORKER_CAP == 8
AUTO_WORKERS == 4

Modulus == 2 ^ WordBits
\* p = 1 and p = 0.5 in units of 1/Modulus
P_ONE == Modulus
P_HALF == Modulus \div 2

Min(a, b) == IF a < b THEN a ELSE b
Max(a, b) == IF a > b THEN a ELSE b

\* x >>> 0
ToUint32(x) == x % Modulus
\* the signed 32-bit value of x (the result type of Math.imul)
ToInt32(x) == LET m == x % Modulus IN IF m >= Modulus \div 2 THEN m - Modulus ELSE m
Imul(a, b) == ToInt32(a * b)

\* ------------------------------------------------ generator, simulateGeneric
\* nextInt(): state = (Math.imul(state, 1664525) + 1013904223) >>> 0
nextIntSigned(state) == ToInt32(Imul(state, LCG_A) + LCG_C)
nextInt(state) == ToUint32(Imul(state, LCG_A) + LCG_C)
\* nextFloat(): (nextInt() >>> 0) / 4294967296, in units of 1/Modulus
nextFloat(state) == ToUint32(nextInt(state))

\* if (draw < p) return false
KilledInverted(draw, p) == draw > p
Killed(draw, p) == draw < p

\* numChecks = Math.max(0, Math.min(10000, Math.floor(Number(numChecks) || 0)))
SaneNumChecks(numChecks) == Max(0, Min(NUMCHECKS_CAP, numChecks))
\* p = Math.max(0, Math.min(1, Number(p) || 0.5)): 0 is falsy, so 0 becomes 0.5
SanePNoMin(p) == Max(0, IF p = 0 THEN P_HALF ELSE p)
SaneP(p) == Max(0, Min(P_ONE, IF p = 0 THEN P_HALF ELSE p))

\* The arguments as JavaScript values: numChecks is an integer ("int"), an
\* integer plus one half ("frac"), Infinity ("inf") or something Number()
\* turns into NaN ("nan"); p is a number in units of 1/Modulus ("num") or NaN.
\* Math.floor(Number(numChecks) || 0), Infinity kept as a value above the clamp
FloorNumber(kind, n) ==
    IF kind = "nan" THEN 0
    ELSE IF kind = "inf" THEN NUMCHECKS_CAP + 1
    ELSE n
\* Number(p), NaN falsy like 0
NumberP(kind, p) == IF kind = "nan" THEN 0 ELSE p

\* let state = seed >>> 0: the generator's state comes from the seed, whatever
\* state `old` the generator built before it was left in
makeLCGRNGStale(seed, old) == old
makeLCGRNG(seed, old) == ToUint32(seed)

\* for (let i = 0; i < numChecks; i++)
LoopOffByOne(i, numChecks) == i <= numChecks
LoopContinues(i, numChecks) == i < numChecks

\* the loop of simulateGeneric from iteration i with generator state `state`
RECURSIVE SimLoop(_, _, _, _)
SimLoop(state, i, numChecks, p) ==
    IF LoopContinues(i, numChecks)
    THEN LET draw == nextFloat(state)
         IN  IF Killed(draw, p) THEN FALSE
             ELSE SimLoop(nextInt(state), i + 1, numChecks, p)
    ELSE TRUE

simulateGeneric(seed, numChecks, p) ==
    SimLoop(ToUint32(seed), 0, SaneNumChecks(numChecks), SaneP(p))

\* the k-th value (k >= 1) a fresh generator seeded with `seed` draws
RECURSIVE StateAfter(_, _)
StateAfter(seed, k) == IF k = 0 THEN ToUint32(seed) ELSE nextInt(StateAfter(seed, k - 1))
DrawNo(seed, k) == StateAfter(seed, k)

\* ------------------------------------------------------------------- state
VARIABLES
    args,            \* the numbers parseArg returns for --startSeed, --maxSeeds, --step, --workers
    cpuCount,        \* os.cpus().length
    mainPc,          \* position of the entrypoint's async function
    startSeed, maxSeeds, step, requestedWorkers, model,
    workers,         \* the worker decision
    outStream,       \* what outStream received, in order: header, seed lines, end()
    s, tested,       \* the serial loop
    seedsPerWorker, activeWorkers, totalTested, assigned, spawnI,
    wPc,             \* per worker: "none", "loop", "exited"
    wData,           \* per worker: its workerData
    wI, wTested,     \* per worker: the loop index i and the tested counter
    port,            \* per worker: messages posted and not yet handled by w.on('message')
    exitCode,        \* per worker: the code of process.exit
    exitSeen,        \* workers whose 'exit' handler has run
    wSeen,           \* per worker: the seeds its loop has evaluated, in order
    errPending,      \* workers whose 'error' event is emitted and not yet handled
    console,         \* the warnings and errors written to the console
    faulted,         \* the seeds whose evaluation threw
    faults,          \* evaluations that threw and threads that died, so far
    simPc, simArgs, simState, simI, simNumChecks, simP, simDraws, simResult,
    simCalls,        \* calls of simulateGeneric completed before the current one
    lPc,             \* position of the serial-only entrypoint (src/index.js before streaming)
    winners,         \* its winners array
    file,            \* what it gave fs.writeFileSync, as lines; <<>> while nothing is written
    fPc,             \* position of fetchWithTimeout
    url,             \* the endpoint fetched, as its index in the endpoints list
    retries, attempt,
    timers,          \* attempts whose abort timer is armed: set, not fired, not cleared
    fLog,            \* how each attempt of the current call ended, in order
    fErr,            \* the error fetchWithTimeout threw
    fBody,           \* the text fetchWithTimeout returned
    lvPc,            \* position of the level step and of fetchAndDecodeLevel inside it
    levelId, lastRaw, info,
    lvModel,         \* the model the level step leaves
    lvThrown,        \* what threw inside the level step's try, if anything
    epLog            \* how each endpoint tried so far ended, in order

scanVars == <<args, cpuCount, mainPc, startSeed, maxSeeds, step, requestedWorkers,
              model, workers, outStream, s, tested, seedsPerWorker, activeWorkers,
              totalTested, assigned, spawnI, wPc, wData, wI, wTested, port,
              exitCode, exitSeen, wSeen, errPending, console, faulted, faults>>
\* what only a fault changes
faultVars == <<errPending, console, faulted, faults>>
simVars == <<simPc, simArgs, simState, simI, simNumChecks, simP, simDraws, simResult,
             simCalls>>
legacyVars == <<lPc, winners, file>>
fetchVars == <<fPc, url, retries, attempt, timers, fLog, fErr, fBody>>
levelVars == <<lvPc, levelId, lastRaw, info, lvModel, lvThrown, epLog>>
netVars == <<fetchVars, levelVars>>
extVars == <<legacyVars, netVars>>
vars == <<scanVars, simVars, extVars>>

\* the seeds the model starts scans at: low ones and ones next to the wrap
StartSeeds == {0, Modulus - 3, Modulus - 1}
WorkerIds == 1..Min(MaxCpus, WORKER_CAP)

HeaderLine == [kind |-> "header", seed |-> 0]
SeedLine(seed) == [kind |-> "seed", seed |-> seed]
EndMark == [kind |-> "end", seed |-> 0]
SentinelLine == [kind |-> "sentinel", seed |-> 0]

NoData == [startSeed |-> 0, maxSeeds |-> 0, step |-> 0, model |-> [numChecks |-> 0, p |-> 0]]

SimIdle ==
    /\ simPc = "idle"
    /\ simArgs = [seed |-> 0, numChecks |-> 0, p |-> 0, ncKind |-> "int", pKind |-> "num"]
    /\ simState = 0 /\ simI = 0 /\ simNumChecks = 0 /\ simP = 0
    /\ simDraws = 0 /\ simResult = FALSE
    /\ simCalls = 0

ScanStart ==
    /\ args \in [startSeed : StartSeeds, maxSeeds : 0..(MAX_SAFE_SEEDS + 1),
                 step : 0..MaxStep, workers : 0..MaxRequested]
    /\ cpuCount \in 1..MaxCpus
    /\ mainPc = "start"
    /\ startSeed = 0 /\ maxSeeds = 0 /\ step = 0 /\ requestedWorkers = 0
    /\ model = [numChecks |-> 0, p |-> 0]
    /\ workers = 0
    /\ outStream = <<>>
    /\ s = 0 /\ tested = 0
    /\ seedsPerWorker = 0 /\ activeWorkers = 0 /\ totalTested = 0
    /\ assigned = 0 /\ spawnI = 0
    /\ wPc = [k \in WorkerIds |-> "none"]
    /\ wData = [k \in WorkerIds |-> NoData]
    /\ wI = [k \in WorkerIds |-> 0]
    /\ wTested = [k \in WorkerIds |-> 0]
    /\ port = [k \in WorkerIds |-> <<>>]
    /\ exitCode = [k \in WorkerIds |-> 0]
    /\ exitSeen = {}
    /\ wSeen = [k \in WorkerIds |-> <<>>]
    /\ errPending = {} /\ console = {} /\ faulted = {} /\ faults = 0

LegacyIdle == lPc = "off" /\ winners = <<>> /\ file = <<>>

\* a text: its length, the object count its decoding yields (0: it does not
\* decode), and the endpoint and attempt it came from
Text(len, dec, u, a) == [len |-> len, dec |-> dec, from |-> <<u, a>>]
EmptyText == Text(0, 0, 0, 0)
\* null
NoText == Text(0 - 1, 0, 0, 0)
NoError == [kind |-> "none", attempt |-> 0]
NoInfo == [raw |-> NoText, decoded |-> 0]
NoModel == [numChecks |-> 0, note |-> "none"]

FetchIdle ==
    /\ fPc = "off" /\ url = 0 /\ retries = 0 /\ attempt = 0 /\ timers = {}
    /\ fLog = <<>> /\ fErr = NoError /\ fBody = NoText

LevelIdle ==
    /\ lvPc = "off" /\ levelId = "none" /\ lastRaw = NoText /\ info = NoInfo
    /\ lvModel = NoModel /\ lvThrown = "none" /\ epLog = <<>>

ExtIdle == LegacyIdle /\ FetchIdle /\ LevelIdle

Init == ScanStart /\ SimIdle /\ ExtIdle

\* ------------------------------------------------- entrypoint, up to the scan
\* maxSeeds > MAX_SAFE_SEEDS is reduced to the cap
CapSeedsOff(n) == n
CapSeeds(n) == IF n > MAX_SAFE_SEEDS THEN MAX_SAFE_SEEDS ELSE n

\* argument parsing, the cap, and the model the level step leaves (p is always 0.5)
Configure ==
    /\ mainPc = "start"
    /\ startSeed' = ToUint32(args.startSeed)
    /\ maxSeeds' = CapSeeds(ToUint32(args.maxSeeds))
    /\ step' = Max(1, ToUint32(args.step))
    /\ requestedWorkers' = ToUint32(args.workers)
    /\ \E n \in 1..MaxModelChecks : model' = [numChecks |-> n, p |-> P_HALF]
    /\ mainPc' = "open"
    /\ UNCHANGED <<args, cpuCount, workers, outStream, s, tested, seedsPerWorker,
                   activeWorkers, totalTested, assigned, spawnI, wPc, wData, wI,
                   wTested, port, exitCode, exitSeen>>
    /\ UNCHANGED <<wSeen, faultVars>>
    /\ UNCHANGED <<simVars, extVars>>

\* if (maxSeeds <= 100000 || step > 1) 0, else min(requested, cpus, 8) or min(cpus, 4)
DecideWorkersStepped(n, st, requested, cpus) ==
    IF n <= SERIAL_LIMIT THEN 0
    ELSE IF requested > 0 THEN Min(Min(requested, cpus), WORKER_CAP)
    ELSE Min(cpus, AUTO_WORKERS)
DecideWorkers(n, st, requested, cpus) ==
    IF n <= SERIAL_LIMIT \/ st > 1 THEN 0
    ELSE IF requested > 0 THEN Min(Min(requested, cpus), WORKER_CAP)
    ELSE Min(cpus, AUTO_WORKERS)

\* const seedsPerWorker = Math.ceil(maxSeeds / workers)
FloorDiv(a, b) == a \div b
CeilDiv(a, b) == (a + b - 1) \div b

\* fs.createWriteStream(outputPath, { flags: 'w' }) and outStream.write(header)
OpenStreamBare == <<>>
OpenStream == <<HeaderLine>>

\* createWriteStream + header, the worker decision, and the first lines of the
\* path taken
OpenAndDecide ==
    /\ mainPc = "open"
    /\ outStream' = OpenStream
    /\ LET w == DecideWorkers(maxSeeds, step, requestedWorkers, Max(1, cpuCount))
       IN  /\ workers' = w
           /\ IF w <= 1
              THEN /\ mainPc' = "serial"
                   /\ s' = startSeed
                   /\ tested' = 0
                   /\ UNCHANGED <<seedsPerWorker, activeWorkers, totalTested, assigned, spawnI>>
              ELSE /\ mainPc' = "spawn"
                   /\ seedsPerWorker' = CeilDiv(maxSeeds, w)
                   /\ activeWorkers' = 0
                   /\ totalTested' = 0
                   /\ assigned' = 0
                   /\ spawnI' = 0
                   /\ UNCHANGED <<s, tested>>
    /\ UNCHANGED <<args, cpuCount, startSeed, maxSeeds, step, requestedWorkers, model,
                   wPc, wData, wI, wTested, port, exitCode, exitSeen>>
    /\ UNCHANGED <<wSeen, faultVars>>
    /\ UNCHANGED <<simVars, extVars>>

\* -------------------------------------------------------------- serial path
\* for (let s = startSeed; s < startSeed + maxSeeds; s += step)
SerialContinues(sv, start, n) == sv < start + n

SerialStep ==
    /\ mainPc = "serial"
    /\ SerialContinues(s, startSeed, maxSeeds)
    /\ tested' = tested + 1
    /\ outStream' = IF simulateGeneric(ToUint32(s), model.numChecks, model.p)
                    THEN Append(outStream, SeedLine(ToUint32(s)))
                    ELSE outStream
    /\ s' = s + step
    /\ UNCHANGED <<args, cpuCount, mainPc, startSeed, maxSeeds, step, requestedWorkers,
                   model, workers, seedsPerWorker, activeWorkers, totalTested, assigned,
                   spawnI, wPc, wData, wI, wTested, port, exitCode, exitSeen>>
    /\ UNCHANGED <<wSeen, faultVars>>
    /\ UNCHANGED <<simVars, extVars>>

SerialEnd ==
    /\ mainPc = "serial"
    /\ ~SerialContinues(s, startSeed, maxSeeds)
    /\ outStream' = Append(outStream, EndMark)
    /\ mainPc' = "done"
    /\ UNCHANGED <<args, cpuCount, startSeed, maxSeeds, step, requestedWorkers, model,
                   workers, s, tested, seedsPerWorker, activeWorkers, totalTested,
                   assigned, spawnI, wPc, wData, wI, wTested, port, exitCode, exitSeen>>
    /\ UNCHANGED <<wSeen, faultVars>>
    /\ UNCHANGED <<simVars, extVars>>

\* ------------------------------------------------------------ parallel path
\* const wStart = startSeed + assigned * step
WStartByIndex(start, assignedV, idx, st) == start + idx * st
WStart(start, assignedV, idx, st) == start + assignedV * st
\* remainingSeeds = Math.max(0, maxSeeds - assigned); take = Math.min(seedsPerWorker, remainingSeeds)
TakeNoClamp(spw, n, assignedV) == IF n - assignedV > 0 THEN spw ELSE 0
Take(spw, n, assignedV) == Min(spw, Max(0, n - assignedV))

\* the workerData spawnWorker builds
WorkerData(wStartSeed, wMaxSeeds, st, mdl) ==
    [startSeed |-> ToUint32(wStartSeed), maxSeeds |-> ToUint32(wMaxSeeds),
     step |-> ToUint32(st), model |-> mdl]

\* one iteration of the spawn loop; spawnWorker runs inside it. The loop runs
\* in one turn of the event loop: no handler runs between two iterations,
\* while the worker threads already started do run.
SpawnStep ==
    /\ mainPc = "spawn"
    /\ spawnI < workers
    /\ LET wStart == WStart(startSeed, assigned, spawnI, step)
           take == Take(seedsPerWorker, maxSeeds, assigned)
           k == spawnI + 1
       IN  IF take <= 0
           THEN /\ mainPc' = "events"
                /\ UNCHANGED <<assigned, spawnI, activeWorkers, wData, wPc>>
           ELSE /\ assigned' = assigned + take
                /\ activeWorkers' = activeWorkers + 1
                /\ wData' = [wData EXCEPT ![k] = WorkerData(wStart, take, step, model)]
                /\ wPc' = [wPc EXCEPT ![k] = "loop"]
                /\ spawnI' = spawnI + 1
                /\ UNCHANGED mainPc
    /\ UNCHANGED <<args, cpuCount, startSeed, maxSeeds, step, requestedWorkers, model,
                   workers, outStream, s, tested, seedsPerWorker, totalTested, wI,
                   wTested, port, exitCode, exitSeen>>
    /\ UNCHANGED <<wSeen, faultVars>>
    /\ UNCHANGED <<simVars, extVars>>

\* the spawn loop ends, the async function returns: the event loop takes over
SpawnEnd ==
    /\ mainPc = "spawn"
    /\ ~(spawnI < workers)
    /\ mainPc' = "events"
    /\ UNCHANGED <<args, cpuCount, startSeed, maxSeeds, step, requestedWorkers, model,
                   workers, outStream, s, tested, seedsPerWorker, activeWorkers,
                   totalTested, assigned, spawnI, wPc, wData, wI, wTested, port,
                   exitCode, exitSeen>>
    /\ UNCHANGED <<wSeen, faultVars>>
    /\ UNCHANGED <<simVars, extVars>>

\* ---------------------------------------------------------------- worker.js
WinnerMsgNext(seed) == [type |-> "winner", val |-> seed + 1]
WinnerMsg(seed) == [type |-> "winner", val |-> seed]
ErrorMsg(seed) == [type |-> "error", val |-> seed]
ProgressMsgOne(delta) == [type |-> "progress", val |-> 1]
ProgressMsg(delta) == [type |-> "progress", val |-> delta]

\* const seed = (startSeed + i * step) >>> 0, with the worker's own normalisation
\* of workerData (startSeed >>> 0, Math.max(1, step >>> 0))
WorkerSeedNoStride(d, i) == ToUint32(ToUint32(d.startSeed) + i)
WorkerSeed(d, i) == ToUint32(ToUint32(d.startSeed) + i * Max(1, ToUint32(d.step)))

\* one iteration of the worker's loop: evaluate, post the winner, count, and
\* post a progress message every progressInterval seeds
WorkerStep(k) ==
    /\ wPc[k] = "loop"
    /\ wI[k] < ToUint32(wData[k].maxSeeds)
    /\ LET seed == WorkerSeed(wData[k], wI[k])
           ok == simulateGeneric(seed, wData[k].model.numChecks, wData[k].model.p)
           t == wTested[k] + 1
           m1 == IF ok THEN <<WinnerMsg(seed)>> ELSE <<>>
           m2 == IF t % progressInterval = 0 THEN <<ProgressMsg(progressInterval)>> ELSE <<>>
       IN  /\ port' = [port EXCEPT ![k] = port[k] \o m1 \o m2]
           /\ wTested' = [wTested EXCEPT ![k] = t]
           /\ wI' = [wI EXCEPT ![k] = wI[k] + 1]
           /\ wSeen' = [wSeen EXCEPT ![k] = Append(wSeen[k], seed)]
    /\ UNCHANGED <<args, cpuCount, mainPc, startSeed, maxSeeds, step, requestedWorkers,
                   model, workers, outStream, s, tested, seedsPerWorker, activeWorkers,
                   totalTested, assigned, spawnI, wPc, wData, exitCode, exitSeen>>
    /\ UNCHANGED faultVars
    /\ UNCHANGED <<simVars, extVars>>

\* after the loop: the final progress post, then process.exit(0)
WorkerFinish(k) ==
    /\ wPc[k] = "loop"
    /\ ~(wI[k] < ToUint32(wData[k].maxSeeds))
    /\ port' = [port EXCEPT ![k] =
                  IF wTested[k] % progressInterval # 0
                  THEN Append(port[k], ProgressMsg(wTested[k] % progressInterval))
                  ELSE port[k]]
    /\ wPc' = [wPc EXCEPT ![k] = "exited"]
    /\ exitCode' = [exitCode EXCEPT ![k] = 0]
    /\ UNCHANGED <<args, cpuCount, mainPc, startSeed, maxSeeds, step, requestedWorkers,
                   model, workers, outStream, s, tested, seedsPerWorker, activeWorkers,
                   totalTested, assigned, spawnI, wData, wI, wTested, exitSeen>>
    /\ UNCHANGED <<wSeen, faultVars>>
    /\ UNCHANGED <<simVars, extVars>>

\* ------------------------------------------- the main thread's event handlers
\* if (msg.type === 'winner')
IsWinnerTypo(msg) == msg.type = "win"
IsWinner(msg) == msg.type = "winner"

\* w.on('message'): one message of worker k, in the order the worker posted them;
\* the handler has a branch for 'winner' and one for 'progress' and none for any
\* other type, whose messages it drops
OnMessage(k) ==
    /\ mainPc = "events"
    /\ port[k] # <<>>
    /\ LET msg == Head(port[k])
       IN  /\ outStream' = IF IsWinner(msg)
                           THEN Append(outStream, SeedLine(ToUint32(msg.val)))
                           ELSE outStream
           /\ totalTested' = IF msg.type = "progress"
                             THEN totalTested + msg.val
                             ELSE totalTested
    /\ port' = [port EXCEPT ![k] = Tail(port[k])]
    /\ UNCHANGED <<args, cpuCount, mainPc, startSeed, maxSeeds, step, requestedWorkers,
                   model, workers, s, tested, seedsPerWorker, activeWorkers, assigned,
                   spawnI, wPc, wData, wI, wTested, exitCode, exitSeen>>
    /\ UNCHANGED <<wSeen, faultVars>>
    /\ UNCHANGED <<simVars, extVars>>

\* the console lines that tell the operator of a fault
ExitWarning(k) == [sig |-> "worker-exit-code", who |-> k]
WorkerError(k) == [sig |-> "worker-error", who |-> k]
SimError(seed) == [sig |-> "simulation-error", who |-> seed]

\* if (activeWorkers === 0) outStream.end()
LastExitAlways(active) == TRUE
LastExit(active) == active = 0

\* if (code !== 0) console.warn(...)
AbnormalNever(code) == FALSE
Abnormal(code) == code # 0

\* activeWorkers--
AfterExitKept(active) == active
AfterExit(active) == active - 1

\* w.on('exit'): emitted once per worker, after the thread has stopped, the
\* messages it posted have been delivered and its 'error' event, if any, handled
OnExit(k) ==
    /\ mainPc = "events"
    /\ wPc[k] = "exited"
    /\ k \notin exitSeen
    /\ k \notin errPending
    /\ port[k] = <<>>
    /\ activeWorkers' = AfterExit(activeWorkers)
    /\ console' = IF Abnormal(exitCode[k]) THEN console \cup {ExitWarning(k)} ELSE console
    /\ outStream' = IF LastExit(AfterExit(activeWorkers))
                    THEN Append(outStream, EndMark)
                    ELSE outStream
    /\ exitSeen' = exitSeen \cup {k}
    /\ UNCHANGED <<args, cpuCount, mainPc, startSeed, maxSeeds, step, requestedWorkers,
                   model, workers, s, tested, seedsPerWorker, totalTested, assigned,
                   spawnI, wPc, wData, wI, wTested, port, exitCode>>
    /\ UNCHANGED <<wSeen, errPending, faulted, faults>>
    /\ UNCHANGED <<simVars, extVars>>

Next ==
    \/ Configure
    \/ OpenAndDecide
    \/ SerialStep
    \/ SerialEnd
    \/ SpawnStep
    \/ SpawnEnd
    \/ \E k \in WorkerIds : WorkerStep(k)
    \/ \E k \in WorkerIds : WorkerFinish(k)
    \/ \E k \in WorkerIds : OnMessage(k)
    \/ \E k \in WorkerIds : OnExit(k)

Spec == Init /\ [][Next]_vars

\* ------------------------------------------- simulateGeneric, draw by draw
\* the arguments simulateGeneric is called with: every seed, check counts
\* below, inside and above the clamp, probabilities below, inside and above [0, 1]
SimSeeds == 0..(Modulus - 1)
SimNumChecks == (0 - 1)..(NUMCHECKS_CAP + 1)
SimPs == {0 - 1, 0, 1, P_HALF, P_ONE - 1, P_ONE, P_ONE + 1}
NcKinds == {"int", "frac", "inf", "nan"}
PKinds == {"num", "nan"}
SimArgSet ==
    {a \in [seed : SimSeeds, numChecks : SimNumChecks, p : SimPs,
            ncKind : NcKinds, pKind : PKinds] :
        /\ a.ncKind \in {"inf", "nan"} => a.numChecks = 0
        /\ a.pKind = "nan" => a.p = 0}

\* no scan runs while simulateGeneric is examined on its own
MainOffState ==
    /\ cpuCount = 1
    /\ mainPc = "off"
    /\ startSeed = 0 /\ maxSeeds = 0 /\ step = 0 /\ requestedWorkers = 0
    /\ model = [numChecks |-> 0, p |-> 0]
    /\ workers = 0
    /\ outStream = <<>>
    /\ s = 0 /\ tested = 0
    /\ seedsPerWorker = 0 /\ activeWorkers = 0 /\ totalTested = 0
    /\ assigned = 0 /\ spawnI = 0
    /\ wI = [k \in WorkerIds |-> 0]
    /\ wTested = [k \in WorkerIds |-> 0]
    /\ port = [k \in WorkerIds |-> <<>>]
    /\ exitCode = [k \in WorkerIds |-> 0]
    /\ exitSeen = {}
    /\ wSeen = [k \in WorkerIds |-> <<>>]
    /\ errPending = {} /\ console = {} /\ faulted = {} /\ faults = 0

MainOff ==
    /\ args = [startSeed |-> 0, maxSeeds |-> 0, step |-> 0, workers |-> 0]
    /\ MainOffState

ScanOff ==
    /\ MainOff
    /\ wPc = [k \in WorkerIds |-> "none"]
    /\ wData = [k \in WorkerIds |-> NoData]

SimInit ==
    /\ ScanOff
    /\ ExtIdle
    /\ simArgs \in SimArgSet
    /\ simPc = "call"
    /\ simState = 0 /\ simI = 0 /\ simNumChecks = 0 /\ simP = 0
    /\ simDraws = 0 /\ simResult = FALSE
    /\ simCalls = 0

\* argument sanity and makeLCGRNG(seed >>> 0)
SimEnter ==
    /\ simPc = "call"
    /\ simNumChecks' = SaneNumChecks(FloorNumber(simArgs.ncKind, simArgs.numChecks))
    /\ simP' = SaneP(NumberP(simArgs.pKind, simArgs.p))
    /\ simState' = makeLCGRNG(ToUint32(simArgs.seed), simState)
    /\ simI' = 0
    /\ simPc' = "loop"
    /\ UNCHANGED <<simArgs, simDraws, simResult, simCalls>>
    /\ UNCHANGED <<scanVars, extVars>>

\* one iteration: const draw = rng.nextFloat(); if (draw < p) return false
SimCheck ==
    /\ simPc = "loop"
    /\ LoopContinues(simI, simNumChecks)
    /\ simState' = nextInt(simState)
    /\ simDraws' = simDraws + 1
    /\ IF Killed(nextFloat(simState), simP)
       THEN /\ simResult' = FALSE
            /\ simPc' = "ret"
            /\ UNCHANGED simI
       ELSE /\ simI' = simI + 1
            /\ UNCHANGED <<simResult, simPc>>
    /\ UNCHANGED <<simArgs, simNumChecks, simP, simCalls>>
    /\ UNCHANGED <<scanVars, extVars>>

\* the loop is over: return true
SimReturn ==
    /\ simPc = "loop"
    /\ ~LoopContinues(simI, simNumChecks)
    /\ simResult' = TRUE
    /\ simPc' = "ret"
    /\ UNCHANGED <<simArgs, simState, simI, simNumChecks, simP, simDraws, simCalls>>
    /\ UNCHANGED <<scanVars, extVars>>

\* the call is over: its arguments and locals are gone, the generator it built
\* stays where it was left
SimLeave ==
    /\ simPc = "ret"
    /\ simCalls < MaxCalls
    /\ simArgs' = [seed |-> 0, numChecks |-> 0, p |-> 0, ncKind |-> "int", pKind |-> "num"]
    /\ simCalls' = simCalls + 1
    /\ simPc' = "idle"
    /\ simI' = 0 /\ simNumChecks' = 0 /\ simP' = 0
    /\ simDraws' = 0 /\ simResult' = FALSE
    /\ UNCHANGED simState
    /\ UNCHANGED <<scanVars, extVars>>

\* the caller's loop calls simulateGeneric for its next seed
SimCallAgain ==
    /\ simPc = "idle"
    /\ simArgs' \in SimArgSet
    /\ simPc' = "call"
    /\ UNCHANGED <<simState, simI, simNumChecks, simP, simDraws, simResult, simCalls>>
    /\ UNCHANGED <<scanVars, extVars>>

SimNext ==
    \/ SimEnter
    \/ SimCheck
    \/ SimReturn
    \/ SimLeave
    \/ SimCallAgain

SimSpec == SimInit /\ [][SimNext]_vars

\* the draw-by-draw run and the operator the scans use agree
SimAgrees ==
    simPc = "ret" =>
        simResult = simulateGeneric(simArgs.seed, FloorNumber(simArgs.ncKind, simArgs.numChecks),
                                    NumberP(simArgs.pKind, simArgs.p))

\* --------------------------------------- the two scans as seed sequences
\* the spawn loop from iteration idx on: the workerData of the workers it spawns
RECURSIVE SpawnLoop(_, _, _, _, _, _, _, _)
SpawnLoop(start, n, st, w, spw, assignedV, idx, mdl) ==
    IF idx < w
    THEN LET take == Take(spw, n, assignedV)
         IN  IF take <= 0 THEN <<>>
             ELSE <<WorkerData(WStart(start, assignedV, idx, st), take, st, mdl)>>
                  \o SpawnLoop(start, n, st, w, spw, assignedV + take, idx + 1, mdl)
    ELSE <<>>

\* seedsPerWorker = Math.ceil(maxSeeds / workers), then the spawn loop
Partition(start, n, st, w, mdl) == SpawnLoop(start, n, st, w, CeilDiv(n, w), 0, 0, mdl)

\* the seeds a worker evaluates, in the order of its loop
WorkerSeeds(d) == [j \in 1..ToUint32(d.maxSeeds) |-> WorkerSeed(d, j - 1)]

\* the seeds the serial loop evaluates from s = sv on, in order
RECURSIVE SerialSeeds(_, _, _, _)
SerialSeeds(sv, start, n, st) ==
    IF SerialContinues(sv, start, n)
    THEN <<ToUint32(sv)>> \o SerialSeeds(sv + st, start, n, st)
    ELSE <<>>

RECURSIVE Concat(_)
Concat(seqs) == IF seqs = <<>> THEN <<>> ELSE Head(seqs) \o Concat(Tail(seqs))

RECURSIVE SumSeq(_)
SumSeq(q) == IF q = <<>> THEN 0 ELSE Head(q) + SumSeq(Tail(q))

Range(q) == {q[j] : j \in 1..Len(q)}

\* what the output stream holds
SeedLines == {j \in 1..Len(outStream) : outStream[j].kind = "seed"}
WrittenSeeds == {outStream[j].seed : j \in SeedLines}
EndCount == Cardinality({j \in 1..Len(outStream) : outStream[j].kind = "end"})
Parallel == mainPc \in {"spawn", "events"}
Spawned == {k \in WorkerIds : wPc[k] # "none"}

\* ------------------------------------------------------------- claims C1..C6
\* the scan request of the claims: startSeed + i * stride mod 2^32 for i in [0, count)
RequestSeeds(start, n, st) == [j \in 1..n |-> (start + (j - 1) * st) % Modulus]

\* the sub-ranges parts partition the request (start, n, st) exactly
PartitionExact(parts, start, n, st) ==
    LET takes == [k \in 1..Len(parts) |-> parts[k].maxSeeds]
        before(k) == SumSeq(SubSeq(takes, 1, k - 1))
        indices(k) == before(k)..(before(k) + takes[k] - 1)
    IN  /\ SumSeq(takes) = n
        /\ \A k \in 1..Len(parts) : takes[k] >= 1
        /\ UNION {indices(k) : k \in 1..Len(parts)} = 0..(n - 1)
        /\ \A k, l \in 1..Len(parts) : k # l => indices(k) \cap indices(l) = {}
        /\ \A k \in 1..Len(parts) : parts[k].step = st
        /\ \A k \in 1..Len(parts) : parts[k].startSeed = (start + before(k) * st) % Modulus
        /\ Concat([k \in 1..Len(parts) |-> WorkerSeeds(parts[k])]) = RequestSeeds(start, n, st)

\* C1: for every scan request and every worker count W >= 2 the sub-ranges
\* of the spawn loop partition [0, count) exactly: the takes sum to count, no
\* index is in two sub-ranges, each keeps the stride, sub-range k starts at
\* (startSeed + (take_0 + .. + take_{k-1}) * stride) mod 2^32, and the
\* sub-ranges concatenated give the seed sequence of one single-threaded scan.
\* Checked of the workers the run spawned, and of the spawn loop applied to
\* the run's request with every stride and every worker count.
C1Thm ==
    /\ mainPc = "events" =>
          /\ [k \in 1..spawnI |-> wData[k]] = Partition(startSeed, maxSeeds, step, workers, model)
          /\ PartitionExact([k \in 1..spawnI |-> wData[k]], startSeed, maxSeeds, step)
    /\ mainPc = "open" =>
          \A st \in 1..MaxStep, w \in 2..(MaxCpus + 1) :
              PartitionExact(Partition(startSeed, maxSeeds, st, w, model), startSeed, maxSeeds, st)

C1Wit ==
    /\ mainPc = "events" /\ spawnI = 3
    /\ wData[1].maxSeeds > wData[3].maxSeeds
    /\ wData[3].startSeed < wData[1].startSeed

\* the winners among the seeds of a sequence
Winners(seeds, mdl) == {x \in Range(seeds) : simulateGeneric(x, mdl.numChecks, mdl.p)}

\* the winners of the request run by w worker tasks
WorkerWinners(start, n, st, w, mdl) ==
    LET parts == Partition(start, n, st, w, mdl)
    IN  UNION {Winners(WorkerSeeds(parts[k]), mdl) : k \in 1..Len(parts)}

RunEnded == EndCount >= 1

\* C2 (as stated): for a fixed request (startSeed, count, stride >= 1) and
\* model, the set of winners the serial loop writes equals the set written
\* when the request is partitioned and run by worker tasks, for every worker
\* count >= 1 and every interleaving of the workers' messages.
C2Orig ==
    RunEnded =>
        /\ WrittenSeeds = Winners(SerialSeeds(startSeed, startSeed, maxSeeds, step), model)
        /\ \A w \in 1..(MaxCpus + 1) :
              WrittenSeeds = WorkerWinners(startSeed, maxSeeds, step, w, model)

\* C3: in a parallel run the output stream is ended exactly once, and only
\* in the exit handler that brings activeWorkers to zero, after every spawned
\* worker has signalled completion; never while a spawned worker still runs.
C3Inv ==
    /\ EndCount <= 1
    /\ (Parallel /\ EndCount = 1) =>
          /\ mainPc = "events"
          /\ activeWorkers = 0
          /\ Spawned = 1..spawnI
          /\ \A k \in Spawned : wPc[k] = "exited" /\ k \in exitSeen
    /\ (mainPc = "events" /\ Spawned = exitSeen) => EndCount = 1

C3Step ==
    (Parallel /\ EndCount' # EndCount) =>
        /\ activeWorkers = 1 /\ activeWorkers' = 0
        /\ \E k \in Spawned : k \notin exitSeen /\ exitSeen' = exitSeen \cup {k}
        /\ outStream' = Append(outStream, EndMark)

C3Thm == [](C3Inv) /\ [][C3Step]_vars

C3Wit ==
    /\ mainPc = "events" /\ EndCount = 1
    /\ Cardinality(exitSeen) = 3

\* the winner messages worker k has posted so far
PostedWinners(k) ==
    {j \in 0..(wI[k] - 1) :
        simulateGeneric(WorkerSeed(wData[k], j), wData[k].model.numChecks, wData[k].model.p)}
PendingWinners(k) == {j \in 1..Len(port[k]) : port[k][j].type = "winner"}

\* C4: in a parallel run every winner message a worker posted is written as
\* one line before the stream is ended, and nothing is written after the end.
C4Thm ==
    Parallel =>
        /\ \A j \in 1..Len(outStream) : outStream[j].kind = "end" => j = Len(outStream)
        /\ Cardinality(SeedLines) + SumSeq([k \in 1..Cardinality(WorkerIds) |-> Cardinality(PendingWinners(k))])
              = SumSeq([k \in 1..Cardinality(WorkerIds) |-> Cardinality(PostedWinners(k))])
        /\ WrittenSeeds \cup UNION {{port[k][j].val : j \in PendingWinners(k)} : k \in WorkerIds}
              = UNION {{WorkerSeed(wData[k], j) : j \in PostedWinners(k)} : k \in WorkerIds}
        /\ RunEnded => \A k \in WorkerIds : port[k] = <<>> /\ (k \in Spawned => wPc[k] = "exited")

C4Wit ==
    /\ Parallel /\ RunEnded
    /\ Cardinality(SeedLines) >= 2
    /\ \E k, l \in Spawned : k # l /\ PostedWinners(k) # {} /\ PostedWinners(l) # {}

\* C5: in any run no seed is written as a winner more than once, also when
\* the scanned sequence wraps past 2^32 - 1.
C5Thm ==
    \A j, l \in SeedLines : j # l => outStream[j].seed # outStream[l].seed

\* a finished run whose winners lie on both sides of the wrap
C5WitSerial ==
    /\ mainPc = "done"
    /\ \E j, l \in SeedLines : outStream[j].seed >= startSeed /\ outStream[l].seed < startSeed

C5Wit ==
    /\ mainPc = "events" /\ RunEnded
    /\ \E j, l \in SeedLines : outStream[j].seed >= startSeed /\ outStream[l].seed < startSeed

\* C6 (as stated): when a run ends, the number of seeds tested (tested in
\* the serial loop, totalTested in a parallel run) equals maxSeeds, for every
\* stride >= 1.
C6Orig ==
    /\ mainPc = "done" => tested = maxSeeds
    /\ (Parallel /\ RunEnded) => totalTested = maxSeeds

\* C6 and C2 where the stride is 1
C6Stride1 == step = 1 => C6Orig
C2Stride1 == step = 1 => C2Orig

\* ------------------------------------------------------------ claims C7..C10
\* simulateGeneric was called with a check count and a kill probability that
\* need no sanitising
SimPlain == simArgs.ncKind = "int" /\ simArgs.pKind = "num"

SimInRange ==
    /\ SimPlain
    /\ simArgs.numChecks \in 0..NUMCHECKS_CAP
    /\ simArgs.p \in 0..P_ONE

\* the seeds of the scan {startSeed: 0, count: 10, stride: 1}
TenSeeds == {ToUint32(i) : i \in 0..9}

\* C7 (as stated): for every seed and every numChecks N > 0,
\* simulateGeneric(seed, N, 0) returns true, and a scan of seeds 0..9 with
\* model {numChecks: 1, p: 0} yields all ten seeds as winners.
C7Orig ==
    (simPc = "ret" /\ SimPlain /\ simArgs.numChecks > 0 /\ simArgs.p = 0) =>
        /\ simResult = TRUE
        /\ \A seed \in TenSeeds : simulateGeneric(seed, 1, 0)

C9Thm ==
    (simArgs.numChecks = 0 /\ simArgs.ncKind = "int") =>
        /\ simDraws = 0
        /\ simPc = "ret" => simResult = TRUE
        /\ simPc \in {"loop", "ret"} => simState = ToUint32(simArgs.seed)

C9Wit ==
    /\ simPc = "ret" /\ SimPlain /\ simArgs.numChecks = 0 /\ simArgs.p = P_ONE
    /\ simResult = TRUE /\ simDraws = 0

\* the number of the first of the first n draws that is below p, or 0
RECURSIVE FirstBelow(_, _, _, _)
FirstBelow(seed, k, n, p) ==
    IF k > n THEN 0
    ELSE IF DrawNo(seed, k) < p THEN k
    ELSE FirstBelow(seed, k + 1, n, p)

\* C10 (as stated): simulateGeneric(seed, N, p) returns true exactly when each
\* of the first N draws of a fresh generator seeded with seed is >= p; it
\* stops at the first draw strictly below p and returns false, so it makes at
\* most N draws and none after a failed check.
C10Orig ==
    (simPc = "ret" /\ SimInRange) =>
        LET first == FirstBelow(simArgs.seed, 1, simArgs.numChecks, simArgs.p)
        IN  /\ simResult = (\A k \in 1..simArgs.numChecks : DrawNo(simArgs.seed, k) >= simArgs.p)
            /\ simDraws <= simArgs.numChecks
            /\ simResult = FALSE => simDraws = first

\* C10 where the kill probability passed is not 0
C10NonZero == simArgs.p # 0 => C10Orig

\* ---------------------------------------------------------- claims C11..C13
\* the result the arguments alone determine: every one of the first n draws of
\* a generator seeded with the seed is >= p, n and p being the sanitised values
ArgsResult(a) ==
    LET n == SaneNumChecks(FloorNumber(a.ncKind, a.numChecks))
        p == SaneP(NumberP(a.pKind, a.p))
    IN  \A k \in 1..n : DrawNo(a.seed, k) >= p

\* C11: two generators built from the same seed draw the same sequence, and
\* the result of simulateGeneric depends only on (seed, numChecks, p): it is
\* the same whatever was evaluated before. The generator of the running call
\* is compared, draw by draw, with one built from the seed alone, in first
\* calls and in calls that follow another call.
C11Thm ==
    /\ simPc \in {"loop", "ret"} => simState = StateAfter(simArgs.seed, simDraws)
    /\ simPc = "ret" => simResult = ArgsResult(simArgs)

C11Wit ==
    /\ simPc = "ret" /\ simCalls >= 1 /\ simDraws >= 2
    /\ simResult = TRUE

\* C12: the generator state is always an unsigned 32-bit integer, each draw
\* replaces it by (state * 1664525 + 1013904223) mod 2^32 (the signed product
\* of Math.imul, the addition and >>> 0 give that value), and nextFloat
\* returns the new state / 2^32, a value in [0, 1).
C12Step ==
    simDraws' = simDraws + 1 =>
        /\ Imul(simState, LCG_A) \in (0 - Modulus \div 2)..(Modulus \div 2 - 1)
        /\ simState' = (simState * LCG_A + LCG_C) % Modulus
        /\ nextFloat(simState) = simState'
        /\ nextFloat(simState) >= 0 /\ nextFloat(simState) < P_ONE

C12Thm == [](simState \in 0..(Modulus - 1)) /\ [][C12Step]_vars

\* a draw was made and the next one multiplies to a negative Math.imul product
C12Wit ==
    /\ simPc = "loop" /\ simDraws >= 1
    /\ LoopContinues(simI, simNumChecks)
    /\ Imul(simState, LCG_A) < 0

WorkerInit ==
    /\ MainOff
    /\ SimIdle
    /\ ExtIdle
    /\ wPc = [k \in WorkerIds |-> IF k = 1 THEN "loop" ELSE "none"]
    /\ \E d \in [startSeed : StartSeeds, maxSeeds : 0..MAX_SAFE_SEEDS, step : 0..MaxStep,
                 model : [numChecks : 1..MaxModelChecks, p : {P_HALF}]] :
          wData = [k \in WorkerIds |-> IF k = 1 THEN d ELSE NoData]

WorkerNext ==
    \/ WorkerStep(1)
    \/ WorkerFinish(1)

WorkerSpec == WorkerInit /\ [][WorkerNext]_vars

\* ------------------------------------------------------------------ claim C14
\* C14: a worker given the sub-range (startSeed, count, stride) evaluates
\* exactly count seeds, the i-th being (startSeed + i * stride) mod 2^32 for
\* i = 0 .. count - 1 in increasing i, also across the wrap, and no other seed.
C14Thm ==
    \A k \in WorkerIds :
        (wPc[k] # "none" /\ wData[k].step >= 1) =>
            /\ wSeen[k] = [j \in 1..wI[k] |->
                              (wData[k].startSeed + (j - 1) * wData[k].step) % Modulus]
            /\ wI[k] <= wData[k].maxSeeds
            /\ wTested[k] = wI[k]
            /\ (wPc[k] = "exited" /\ exitCode[k] = 0) => Len(wSeen[k]) = wData[k].maxSeeds

C14Wit ==
    /\ wPc[1] = "exited" /\ wData[1].step = 2
    /\ Len(wSeen[1]) = wData[1].maxSeeds /\ wData[1].maxSeeds >= 3
    /\ \E j \in 1..Len(wSeen[1]) : wSeen[1][j] < wData[1].startSeed

\* ------------------------------------------- the partitioner on its own
\* the entrypoint at the head of the spawn loop, for every count and worker
\* number in the ratio the program partitions: it takes the parallel path only
\* for more than 100000 seeds and at most 8 workers, so count > W * (W - 1)
PartInit == ScanOff /\ SimIdle /\ ExtIdle

PartEnter ==
    /\ mainPc = "off"
    /\ \E st \in StartSeeds, w \in 2..Min(MaxCpus, WORKER_CAP),
          n \in (SERIAL_LIMIT + 1)..PartMaxCount, nc \in 1..MaxModelChecks :
          /\ n > w * (w - 1)
          /\ startSeed' = st
          /\ maxSeeds' = n
          /\ workers' = w
          /\ model' = [numChecks |-> nc, p |-> P_HALF]
          /\ seedsPerWorker' = CeilDiv(n, w)
    /\ step' = 1
    /\ outStream' = <<HeaderLine>>
    /\ mainPc' = "spawn"
    /\ activeWorkers' = 0 /\ totalTested' = 0 /\ assigned' = 0 /\ spawnI' = 0
    /\ UNCHANGED <<args, cpuCount, requestedWorkers, s, tested, wPc, wData, wI,
                   wTested, port, exitCode, exitSeen>>
    /\ UNCHANGED <<wSeen, faultVars>>
    /\ UNCHANGED <<simVars, extVars>>

PartNext ==
    \/ PartEnter
    \/ SpawnStep
    \/ SpawnEnd

PartSpec == PartInit /\ [][PartNext]_vars

\* ------------------------------------------------------------------ claim C15
SubRangeSize(k) == wData[k].maxSeeds

\* C15 as stated: once the spawn loop has ended there are exactly
\* min(W, count) sub-ranges and the sizes of any two differ by at most one.
C15Orig ==
    mainPc = "events" =>
        /\ spawnI = Min(workers, maxSeeds)
        /\ \A j, k \in 1..spawnI : SubRangeSize(j) - SubRangeSize(k) <= 1

\* C15: once the spawn loop has ended, every sub-range but the last holds
\* exactly ceil(count / W) seeds and the last holds the remainder, between 1
\* and ceil(count / W) seeds; there are ceil(count / ceil(count / W)) <=
\* min(W, count) sub-ranges, together they hold exactly count seeds, and two
\* sizes differ by at most W - 1.
C15Thm ==
    (mainPc = "events" /\ workers >= 2) =>
        LET chunk == (maxSeeds + workers - 1) \div workers
        IN  /\ spawnI = (maxSeeds + chunk - 1) \div chunk
            /\ spawnI <= Min(workers, maxSeeds)
            /\ \A k \in 1..(spawnI - 1) : SubRangeSize(k) = chunk
            /\ SubRangeSize(spawnI) \in 1..chunk
            /\ SumSeq([k \in 1..spawnI |-> SubRangeSize(k)]) = maxSeeds
            /\ \A j, k \in 1..spawnI : SubRangeSize(j) - SubRangeSize(k) <= workers - 1

C15Wit ==
    /\ mainPc = "events" /\ spawnI = workers
    /\ \E j, k \in 1..spawnI : SubRangeSize(j) - SubRangeSize(k) >= 2

\* ------------------------------------------------------------------ claim C20
Evaluated == tested + SumSeq(wI)

\* C20: configuration is settled before any seed is evaluated or any worker is
\* started: a requested count above the cap is reduced to the cap and a stride
\* of 0 is raised to 1, so in every state of the scan the effective count is
\* at most the cap, the effective stride at least 1, every worker is given a
\* stride of at least 1, and no run evaluates more seeds than the cap.
C20Thm ==
    /\ mainPc = "start" =>
          /\ Evaluated = 0
          /\ outStream = <<>>
          /\ \A k \in WorkerIds : wPc[k] = "none" /\ wSeen[k] = <<>>
    /\ mainPc # "start" =>
          /\ maxSeeds = Min(args.maxSeeds, MAX_SAFE_SEEDS)
          /\ maxSeeds <= MAX_SAFE_SEEDS
          /\ step = Max(1, args.step)
          /\ step >= 1
          /\ \A k \in WorkerIds : wPc[k] # "none" => wData[k].step >= 1
    /\ Evaluated <= MAX_SAFE_SEEDS

C20Wit ==
    /\ RunEnded
    /\ args.maxSeeds > MAX_SAFE_SEEDS /\ args.step = 0
    /\ workers >= 2
    /\ Evaluated = MAX_SAFE_SEEDS

\* ------------------------------------------------------------------ claim C19
\* C19: each spawned worker signals completion exactly once, also with zero
\* winners: activeWorkers counts the spawn of every worker once and its exit
\* once, so it is the number of spawned workers whose exit has not been
\* handled, between 0 and the number of spawned workers; only workers that
\* have stopped are counted as exited, and the stream is ended only at 0.
C19Thm ==
    Parallel =>
        /\ exitSeen \subseteq {k \in Spawned : wPc[k] = "exited"}
        /\ activeWorkers = Cardinality(Spawned \ exitSeen)
        /\ activeWorkers = Cardinality(Spawned) - Cardinality(exitSeen)
        /\ 0 <= activeWorkers /\ activeWorkers <= Cardinality(Spawned)
        /\ RunEnded => activeWorkers = 0

C19Wit ==
    /\ mainPc = "events"
    /\ activeWorkers >= 1
    /\ \E k \in exitSeen : PostedWinners(k) = {} /\ wData[k].maxSeeds >= 1 /\ exitCode[k] = 0

\* ------------------------------------------------------- the scan with faults
\* tested++ after the try/catch of the worker's loop
AfterCatchSkipped(t) == t
AfterCatch(t) == t + 1

\* one iteration of the worker's loop in which simulateGeneric throws: the
\* catch posts the diagnostic message, then the seed is counted as usual
WorkerStepThrows(k) ==
    /\ faults < MaxFaults
    /\ wPc[k] = "loop"
    /\ wI[k] < ToUint32(wData[k].maxSeeds)
    /\ LET seed == WorkerSeed(wData[k], wI[k])
           t == AfterCatch(wTested[k])
           m2 == IF t % progressInterval = 0 THEN <<ProgressMsg(progressInterval)>> ELSE <<>>
       IN  /\ port' = [port EXCEPT ![k] = Append(port[k], ErrorMsg(seed)) \o m2]
           /\ wTested' = [wTested EXCEPT ![k] = t]
           /\ wI' = [wI EXCEPT ![k] = wI[k] + 1]
           /\ wSeen' = [wSeen EXCEPT ![k] = Append(wSeen[k], seed)]
           /\ faulted' = faulted \cup {seed}
    /\ faults' = faults + 1
    /\ UNCHANGED <<args, cpuCount, mainPc, startSeed, maxSeeds, step, requestedWorkers,
                   model, workers, outStream, s, tested, seedsPerWorker, activeWorkers,
                   totalTested, assigned, spawnI, wPc, wData, exitCode, exitSeen>>
    /\ UNCHANGED <<errPending, console>>
    /\ UNCHANGED <<simVars, extVars>>

\* one iteration of the serial loop in which simulateGeneric throws: the seed
\* has been counted, the catch writes to the console, the loop goes on
SerialStepThrows ==
    /\ faults < MaxFaults
    /\ mainPc = "serial"
    /\ SerialContinues(s, startSeed, maxSeeds)
    /\ tested' = tested + 1
    /\ console' = console \cup {SimError(ToUint32(s))}
    /\ s' = s + step
    /\ faulted' = faulted \cup {ToUint32(s)}
    /\ faults' = faults + 1
    /\ UNCHANGED <<args, cpuCount, mainPc, startSeed, maxSeeds, step, requestedWorkers,
                   model, workers, outStream, seedsPerWorker, activeWorkers, totalTested,
                   assigned, spawnI, wPc, wData, wI, wTested, port, exitCode, exitSeen>>
    /\ UNCHANGED <<wSeen, errPending>>
    /\ UNCHANGED <<simVars, extVars>>

\* a worker thread dies of an uncaught exception at any point of its loop:
\* the Worker emits 'error', then 'exit' with code 1; the messages it had
\* posted and the main thread has not yet received are delivered or lost
WorkerCrash(k) ==
    /\ faults < MaxFaults
    /\ wPc[k] = "loop"
    /\ wPc' = [wPc EXCEPT ![k] = "exited"]
    /\ exitCode' = [exitCode EXCEPT ![k] = 1]
    /\ errPending' = errPending \cup {k}
    /\ \E kept \in BOOLEAN : port' = [port EXCEPT ![k] = IF kept THEN port[k] ELSE <<>>]
    /\ faults' = faults + 1
    /\ UNCHANGED <<args, cpuCount, mainPc, startSeed, maxSeeds, step, requestedWorkers,
                   model, workers, outStream, s, tested, seedsPerWorker, activeWorkers,
                   totalTested, assigned, spawnI, wData, wI, wTested, exitSeen>>
    /\ UNCHANGED <<wSeen, console, faulted>>
    /\ UNCHANGED <<simVars, extVars>>

\* w.on('error')
OnError(k) ==
    /\ mainPc = "events"
    /\ k \in errPending
    /\ console' = console \cup {WorkerError(k)}
    /\ errPending' = errPending \ {k}
    /\ UNCHANGED <<args, cpuCount, mainPc, startSeed, maxSeeds, step, requestedWorkers,
                   model, workers, outStream, s, tested, seedsPerWorker, activeWorkers,
                   totalTested, assigned, spawnI, wPc, wData, wI, wTested, port,
                   exitCode, exitSeen>>
    /\ UNCHANGED <<wSeen, faulted, faults>>
    /\ UNCHANGED <<simVars, extVars>>

\* the runs the faults are injected into: a start seed next to the wrap, the
\* automatic worker number, every number of CPUs, and the counts at the ends
\* of the serial and of the parallel range
FaultInit ==
    /\ Init
    /\ args.startSeed = Modulus - 1
    /\ args.workers = 0
    /\ args.step \in 1..MaxStep
    /\ args.maxSeeds \in {1, SERIAL_LIMIT, SERIAL_LIMIT + 1, MAX_SAFE_SEEDS + 1}

FaultNext ==
    \/ Next
    \/ SerialStepThrows
    \/ \E k \in WorkerIds : WorkerStepThrows(k)
    \/ \E k \in WorkerIds : WorkerCrash(k)
    \/ \E k \in WorkerIds : OnError(k)

FaultSpec == FaultInit /\ [][FaultNext]_vars

\* ------------------------------------------------------------------ claim C16
Signalled(x) == \E line \in console : line.sig = "simulation-error" /\ line.who = x

\* C16 as stated: no error is silently swallowed: once the run has ended,
\* every seed whose evaluation threw, in a worker or in the serial loop, has
\* a signal on the console.
C16Orig == RunEnded => \A x \in faulted : Signalled(x)

\* what does hold: the serial loop signals every throwing seed
C16Serial == (mainPc \in {"serial", "done"}) => \A x \in faulted : Signalled(x)

\* ------------------------------------------------------------------ claim C17
\* C17: a failure while evaluating one seed does not abort the scan: the
\* faulting seed is never written as a winner, it is counted as tested like
\* any other, and the loop goes on to its bound: a worker that exits normally
\* has evaluated every seed of its sub-range, and the finished serial loop has
\* run as many iterations as without a failure.
C17Thm ==
    /\ faulted \cap WrittenSeeds = {}
    /\ \A k \in WorkerIds : \A j \in 1..Len(port[k]) :
          port[k][j].type = "winner" => port[k][j].val \notin faulted
    /\ \A k \in Spawned :
          /\ wTested[k] = wI[k] /\ Len(wSeen[k]) = wI[k]
          /\ (wPc[k] = "exited" /\ exitCode[k] = 0) =>
                wSeen[k] = RequestSeeds(wData[k].startSeed, wData[k].maxSeeds, wData[k].step)
    /\ Parallel => faulted \subseteq UNION {Range(wSeen[k]) : k \in WorkerIds}
    /\ mainPc \in {"serial", "done"} =>
          /\ tested * step = s - startSeed
          /\ faulted \subseteq Range(SerialSeeds(startSeed, startSeed, maxSeeds, step))
          /\ mainPc = "done" =>
                /\ tested = Len(SerialSeeds(startSeed, startSeed, maxSeeds, step))
                /\ step = 1 => tested = maxSeeds

C17Wit ==
    /\ RunEnded
    /\ \E k \in Spawned :
          /\ exitCode[k] = 0
          /\ \E j \in 1..(Len(wSeen[k]) - 1) :
                /\ wSeen[k][j] \in faulted
                /\ simulateGeneric(wSeen[k][j], model.numChecks, model.p)
          /\ Len(wSeen[k]) = wData[k].maxSeeds

C17WitSerial ==
    /\ mainPc = "done" /\ tested >= 2
    /\ \E x \in faulted : x # ToUint32(s - step) /\ simulateGeneric(x, model.numChecks, model.p)

\* ------------------------------------------------------------------ claim C18
Crashed == {k \in Spawned : wPc[k] = "exited" /\ exitCode[k] # 0}

WorkerCanMove(k) ==
    \/ ENABLED OnMessage(k)
    \/ ENABLED OnError(k)
    \/ ENABLED OnExit(k)
    \/ ENABLED WorkerFinish(k)
    \/ ENABLED WorkerStep(k)

\* C18: when a worker terminates abnormally the others are unaffected: every
\* worker that exits normally has evaluated its whole sub-range and, once the
\* stream is ended, all its winners are written; the failed worker's 'error'
\* and exit code are on the console once its exit has been handled; the
\* stream is ended as soon as the exit of every spawned worker has been
\* handled, and until then the run can always take a step without a fault.
C18Thm ==
    /\ \A k \in Spawned :
          (wPc[k] = "exited" /\ exitCode[k] = 0) =>
              /\ wI[k] = wData[k].maxSeeds
              /\ RunEnded =>
                    \A j \in 1..Len(wSeen[k]) :
                        (wSeen[k][j] \notin faulted
                           /\ simulateGeneric(wSeen[k][j], model.numChecks, model.p))
                        => wSeen[k][j] \in WrittenSeeds
    /\ \A k \in Crashed \cap exitSeen :
          ExitWarning(k) \in console /\ WorkerError(k) \in console
    /\ \A k \in Spawned \ Crashed : ExitWarning(k) \notin console /\ WorkerError(k) \notin console
    /\ (mainPc = "events" /\ Spawned = exitSeen) => EndCount = 1
    /\ (mainPc = "events" /\ ~RunEnded) => \E k \in Spawned : WorkerCanMove(k)

C18Wit ==
    /\ RunEnded
    /\ \E k \in Crashed :
          /\ wI[k] < wData[k].maxSeeds
          /\ \E j \in Spawned \ Crashed :
                /\ PostedWinners(j) # {}
                /\ \A x \in Range(wSeen[j]) :
                      simulateGeneric(x, model.numChecks, model.p) => x \in WrittenSeeds

\* --------------------------- the serial-only entrypoint (src/index.js, older)
\* no streaming, no workers, no cap: the winners are collected in an array and
\* the file is written after the loop
LegacyInit ==
    /\ args \in [startSeed : StartSeeds, maxSeeds : 0..(MAX_SAFE_SEEDS + 1),
                 step : 0..MaxStep, workers : {0}]
    /\ MainOffState
    /\ wPc = [k \in WorkerIds |-> "none"]
    /\ wData = [k \in WorkerIds |-> NoData]
    /\ SimIdle
    /\ lPc = "start" /\ winners = <<>> /\ file = <<>>
    /\ FetchIdle /\ LevelIdle

\* parseArg(...) >>> 0 for startSeed, maxSeeds and step, and the model
LegacyConfigure ==
    /\ lPc = "start"
    /\ startSeed' = ToUint32(args.startSeed)
    /\ maxSeeds' = ToUint32(args.maxSeeds)
    /\ step' = ToUint32(args.step)
    /\ \E n \in 1..MaxModelChecks : model' = [numChecks |-> n, p |-> P_HALF]
    /\ s' = ToUint32(args.startSeed)
    /\ tested' = 0
    /\ winners' = <<>>
    /\ lPc' = "loop"
    /\ UNCHANGED <<args, cpuCount, mainPc, requestedWorkers, workers, outStream,
                   seedsPerWorker, activeWorkers, totalTested, assigned, spawnI, wPc,
                   wData, wI, wTested, port, exitCode, exitSeen, wSeen, faultVars>>
    /\ UNCHANGED <<simVars, file, netVars>>

\* for (let s = startSeed; s < startSeed + maxSeeds; s += step): one iteration
LegacyStep ==
    /\ lPc = "loop"
    /\ SerialContinues(s, startSeed, maxSeeds)
    /\ tested < maxSeeds + LegacyOverrun
    /\ tested' = tested + 1
    /\ winners' = IF simulateGeneric(ToUint32(s), model.numChecks, model.p)
                  THEN Append(winners, ToUint32(s))
                  ELSE winners
    /\ s' = s + step
    /\ UNCHANGED <<args, cpuCount, mainPc, startSeed, maxSeeds, step, requestedWorkers,
                   model, workers, outStream, seedsPerWorker, activeWorkers, totalTested,
                   assigned, spawnI, wPc, wData, wI, wTested, port, exitCode, exitSeen,
                   wSeen, faultVars>>
    /\ UNCHANGED <<simVars, lPc, file, netVars>>

\* body = winners.length ? the winners, one per line : 'NO WINNING SEEDS FOUND'
LegacyBody(w) == IF Len(w) # 0 THEN [j \in 1..Len(w) |-> SeedLine(w[j])] ELSE <<SentinelLine>>

\* after the loop: fs.writeFileSync(outputPath, header + body)
LegacyWrite ==
    /\ lPc = "loop"
    /\ ~SerialContinues(s, startSeed, maxSeeds)
    /\ file' = <<HeaderLine>> \o LegacyBody(winners)
    /\ lPc' = "done"
    /\ UNCHANGED <<scanVars, simVars, winners, netVars>>

LegacyNext ==
    \/ LegacyConfigure
    \/ LegacyStep
    \/ LegacyWrite

LegacySpec == LegacyInit /\ [][LegacyNext]_vars

\* ------------------------------------------------------------------ claim C21
HasBody(lines) == \E j \in 1..Len(lines) : lines[j].kind \in {"seed", "sentinel"}

\* C21 as stated: the finished output is the header followed by one line per
\* winner, or by a sentinel line when there is none: an ended run never leaves
\* a header with nothing after it.
C21Orig ==
    RunEnded =>
        /\ outStream[1] = HeaderLine
        /\ HasBody(outStream)

\* what does hold: the serial-only entrypoint writes the sentinel
C21Legacy ==
    lPc = "done" =>
        /\ file[1] = HeaderLine
        /\ Len(winners) = 0 => file = <<HeaderLine, SentinelLine>>
        /\ Len(winners) # 0 => Tail(file) = [j \in 1..Len(winners) |-> SeedLine(winners[j])]

\* ------------------------------------------------------------------ claim C26
\* C26 as stated: the loop of the serial-only entrypoint runs a number of
\* iterations bounded by maxSeeds, whatever startSeed, maxSeeds and step are,
\* step = 0 included.
C26Orig == lPc \in {"loop", "done"} => tested <= maxSeeds

\* what does hold: with step >= 1 the loop runs ceil(maxSeeds / step)
\* iterations and the file is written
C26StepPos ==
    (lPc \in {"loop", "done"} /\ step >= 1) =>
        /\ tested <= maxSeeds
        /\ tested * step = s - startSeed
        /\ ~SerialContinues(s, startSeed, maxSeeds) => tested = CeilDiv(maxSeeds, step)
        /\ ENABLED LegacyNext \/ lPc = "done"

\* ------------------------------------------------------------------ claim C22
HeaderCount == Cardinality({j \in 1..Len(outStream) : outStream[j].kind = "header"})

\* C22: the header is written exactly once per run, when the stream is
\* opened, and precedes every winner line: nothing is written before the
\* stream is opened, and from then on the first thing written is the header
\* and there is no other header, in serial and in parallel mode.
C22Thm ==
    /\ mainPc \in {"start", "open"} => outStream = <<>>
    /\ mainPc \in {"serial", "spawn", "events", "done"} =>
          /\ HeaderCount = 1
          /\ outStream[1] = HeaderLine
          /\ \A j \in SeedLines : j > 1

C22Wit ==
    /\ mainPc = "events" /\ RunEnded
    /\ HeaderCount = 1
    /\ \E j \in SeedLines : j = 2

\* ------------------------------------------------------------------ claim C23
C23Step ==
    outStream' # outStream =>
        /\ Len(outStream') = Len(outStream) + 1
        /\ SubSeq(outStream', 1, Len(outStream)) = outStream
        /\ wPc' = wPc /\ wI' = wI /\ wTested' = wTested /\ wSeen' = wSeen
        /\ (Parallel /\ outStream'[Len(outStream')].kind = "seed") =>
              \E k \in Spawned :
                  /\ port[k] # <<>>
                  /\ Head(port[k]).type = "winner"
                  /\ Head(port[k]).val = outStream'[Len(outStream')].seed
                  /\ port' = [port EXCEPT ![k] = Tail(port[k])]
                  /\ outStream'[Len(outStream')].seed \in Range(wSeen[k])
                  /\ simulateGeneric(outStream'[Len(outStream')].seed,
                                     model.numChecks, model.p)

\* C23: single writer: no step of a worker changes the output; every step
\* that changes it is a step of the main thread and appends exactly one whole
\* line; a winner line of a parallel run is appended while handling one
\* 'winner' message of one worker and holds that message's seed, a winner that
\* worker evaluated, so no line mixes two winners.
C23Thm == [][C23Step]_vars

C23Wit ==
    /\ mainPc = "events"
    /\ SeedLines # {}
    /\ \E k, l \in Spawned : k # l /\ PendingWinners(k) # {} /\ PendingWinners(l) # {}

\* ------------------------------------------------------------------ claim C24
\* the worker count of the policy, as the claim words it
PolicyWorkers(n, st, requested, cpus) ==
    IF n <= SERIAL_LIMIT \/ st > 1 THEN 0
    ELSE IF requested > 0
         THEN (CHOOSE m \in {requested, cpus, 8} : \A x \in {requested, cpus, 8} : m <= x)
         ELSE (CHOOSE m \in {cpus, 4} : \A x \in {cpus, 4} : m <= x)

\* C24: the scan is serial exactly when maxSeeds is at most the threshold, or
\* step > 1, or the resolved worker count is at most 1; otherwise the resolved
\* count is min(requestedWorkers, cpuCount, 8) for requestedWorkers > 0 and
\* min(cpuCount, 4) for 0, no more workers than that are spawned (exactly that
\* many when maxSeeds > W * (W - 1), as in every parallel run of the program),
\* no worker is ever started for a stepped scan and at most 8 are active. The
\* decision is also checked for every request and CPU number up to 10.
C24Thm ==
    /\ mainPc = "open" =>
          \A requested \in 0..10, cpus \in 1..10 :
              LET w == DecideWorkers(maxSeeds, step, requested, cpus)
              IN  /\ w = PolicyWorkers(maxSeeds, step, requested, cpus)
                  /\ w <= 8
                  /\ step > 1 => w = 0
    /\ mainPc \in {"serial", "spawn", "events", "done"} =>
          LET w == PolicyWorkers(maxSeeds, step, requestedWorkers, cpuCount)
          IN  /\ workers = w
              /\ mainPc \in {"serial", "done"} <=> w <= 1
              /\ w <= 1 => Spawned = {}
              /\ step > 1 => Spawned = {}
              /\ Cardinality(Spawned) <= w \/ w <= 1
              /\ (mainPc = "events" /\ maxSeeds > w * (w - 1) /\ w >= 2) =>
                    Cardinality(Spawned) = w
              /\ activeWorkers <= 8 /\ Cardinality(Spawned) <= 8

C24Wit ==
    /\ mainPc = "events"
    /\ requestedWorkers > 0 /\ requestedWorkers < cpuCount
    /\ Cardinality(Spawned) = requestedWorkers
    /\ activeWorkers = requestedWorkers

\* ------------------------------------------------------------------ claim C25
\* the deltas of the progress messages of worker k still in its port
PendingProgress(k) ==
    SumSeq([j \in 1..Len(port[k]) |->
               IF port[k][j].type = "progress" THEN port[k][j].val ELSE 0])

\* what worker k has reported so far: whole batches while it loops, all it
\* tested once it has made its final post
Reported(k) ==
    IF wPc[k] = "exited" THEN wTested[k]
    ELSE wTested[k] - (wTested[k] % progressInterval)

C25Inv ==
    Parallel =>
        /\ \A k \in WorkerIds : \A j \in 1..Len(port[k]) :
              port[k][j].type = "progress" =>
                  \/ port[k][j].val = progressInterval
                  \/ /\ j = Len(port[k]) /\ wPc[k] = "exited"
                     /\ port[k][j].val = wTested[k] % progressInterval
                     /\ port[k][j].val \in 1..(progressInterval - 1)
        /\ \A k \in Spawned : wPc[k] = "exited" => wTested[k] = wData[k].maxSeeds
        /\ totalTested + SumSeq([k \in 1..Cardinality(WorkerIds) |-> PendingProgress(k)])
              = SumSeq([k \in 1..Cardinality(WorkerIds) |-> Reported(k)])
        /\ totalTested <= maxSeeds
        /\ RunEnded => totalTested = maxSeeds

\* C25: a worker posts a progress message after every progressInterval seeds
\* carrying exactly progressInterval, and one final message carrying the
\* remainder when its count is not a multiple; the deltas it posts sum to its
\* sub-range count; totalTested is the sum of the deltas received, never
\* decreases and never exceeds the requested count.
C25Thm == [](C25Inv) /\ [][totalTested' >= totalTested]_vars

C25Wit ==
    /\ mainPc = "events"
    /\ \E k \in Spawned :
          /\ wPc[k] = "exited" /\ port[k] = <<>>
          /\ wTested[k] > progressInterval /\ wTested[k] % progressInterval # 0
          /\ totalTested >= wTested[k]
    /\ totalTested < maxSeeds

\* ------------------------------------------ level_fetcher.js: fetchWithTimeout
\* for (let attempt = 1; attempt <= retries; attempt++): the loop test, then
\* the AbortController and its timer, then fetch() is awaited
FetchBegin ==
    /\ fPc = "loop"
    /\ attempt <= retries
    /\ timers' = timers \cup {attempt}
    /\ fPc' = "fetch"
    /\ UNCHANGED <<url, retries, attempt, fLog, fErr, fBody>>
    /\ UNCHANGED <<scanVars, simVars, legacyVars, levelVars>>

\* the loop test fails: throw new Error('unreachable')
FetchUnreachable ==
    /\ fPc = "loop"
    /\ ~(attempt <= retries)
    /\ fErr' = [kind |-> "unreachable", attempt |-> 0]
    /\ fPc' = "thrown"
    /\ UNCHANGED <<url, retries, attempt, timers, fLog, fBody>>
    /\ UNCHANGED <<scanVars, simVars, legacyVars, levelVars>>

\* fetch() resolves with a response: clearTimeout(id), then the status and
\* content-length tests, each of which throws into the catch
FetchResolve ==
    /\ fPc = "fetch"
    /\ timers' = timers \ {attempt}
    /\ \E head \in {"ok", "http", "content-length"} :
          IF head = "ok"
          THEN fPc' = "text" /\ UNCHANGED fErr
          ELSE fPc' = "catch" /\ fErr' = [kind |-> head, attempt |-> attempt]
    /\ UNCHANGED <<url, retries, attempt, fLog, fBody>>
    /\ UNCHANGED <<scanVars, simVars, legacyVars, levelVars>>

\* fetch() rejects: the timer fired and aborted it, or the network failed
\* with the timer still armed
FetchReject ==
    /\ fPc = "fetch"
    /\ \E why \in {"abort", "network"} :
          /\ timers' = IF why = "abort" THEN timers \ {attempt} ELSE timers
          /\ fErr' = [kind |-> why, attempt |-> attempt]
    /\ fPc' = "catch"
    /\ UNCHANGED <<url, retries, attempt, fLog, fBody>>
    /\ UNCHANGED <<scanVars, simVars, legacyVars, levelVars>>

\* the texts an endpoint can send: empty, within the limit, above it; decoding
\* to nothing or to a level of a few, a hundred or thousands of objects
DecodedObjects == {1, 105, 3000}
TextsOf(u, a) ==
    {Text(0, 0, u, a)} \cup
    {Text(len, dec, u, a) : len \in 1..(MAX_FETCH_LEN + 1), dec \in {0} \cup DecodedObjects}

\* if (txt.length > 5_000_000) throw
TooLarge(txt) == txt.len > MAX_FETCH_LEN

\* await res.text(): the body arrives, or reading it fails; too long a body throws
FetchText ==
    /\ fPc = "text"
    /\ \/ /\ fErr' = [kind |-> "body", attempt |-> attempt]
          /\ fPc' = "catch"
          /\ UNCHANGED <<fBody, fLog>>
       \/ \E txt \in TextsOf(url, attempt) :
             IF TooLarge(txt)
             THEN /\ fErr' = [kind |-> "too-large", attempt |-> attempt]
                  /\ fPc' = "catch"
                  /\ UNCHANGED <<fBody, fLog>>
             ELSE /\ fBody' = txt
                  /\ fLog' = Append(fLog, "ok")
                  /\ fPc' = "returned"
                  /\ UNCHANGED fErr
    /\ UNCHANGED <<url, retries, attempt, timers>>
    /\ UNCHANGED <<scanVars, simVars, legacyVars, levelVars>>

\* if (attempt === retries) throw err
LastAttemptNever(a, r) == FALSE
LastAttempt(a, r) == a = r

\* catch (err): clearTimeout(id), then rethrow on the last attempt or wait
FetchCatch ==
    /\ fPc = "catch"
    /\ timers' = timers \ {attempt}
    /\ fLog' = Append(fLog, "failed")
    /\ fPc' = IF LastAttempt(attempt, retries) THEN "thrown" ELSE "delay"
    /\ UNCHANGED <<url, retries, attempt, fErr, fBody>>
    /\ UNCHANGED <<scanVars, simVars, legacyVars, levelVars>>

\* the delay of 300 * attempt ms ends; attempt++
FetchRetry ==
    /\ fPc = "delay"
    /\ attempt' = attempt + 1
    /\ fPc' = "loop"
    /\ UNCHANGED <<url, retries, timers, fLog, fErr, fBody>>
    /\ UNCHANGED <<scanVars, simVars, legacyVars, levelVars>>

FetchSteps ==
    \/ FetchBegin
    \/ FetchUnreachable
    \/ FetchResolve
    \/ FetchReject
    \/ FetchText
    \/ FetchCatch
    \/ FetchRetry

\* one call fetchWithTimeout(url, { retries }) for every retries
FetchInit ==
    /\ MainOff
    /\ wPc = [k \in WorkerIds |-> "none"]
    /\ wData = [k \in WorkerIds |-> NoData]
    /\ SimIdle /\ LegacyIdle /\ LevelIdle
    /\ fPc = "loop" /\ url = 1 /\ attempt = 1 /\ retries \in 0..MaxRetries
    /\ timers = {} /\ fLog = <<>> /\ fErr = NoError /\ fBody = NoText

FetchSpec == FetchInit /\ [][FetchSteps]_vars

\* ------------------------------------------------------------------ claim C27
AllFailed(log) == \A j \in 1..Len(log) : log[j] = "failed"
FetchesMade == Len(fLog) + (IF fPc \in {"fetch", "text", "catch"} THEN 1 ELSE 0)

C27WitThrown ==
    /\ fPc = "thrown" /\ retries >= 2 /\ fErr.kind = "network" /\ fLog[1] = "failed"

\* ----------------- the level step: fetchAndDecodeLevel and the model it leaves
\* the endpoints list has five URLs, each fetched with retries: 2
NUM_ENDPOINTS == 5
ENDPOINT_RETRIES == 2

\* tryDecodeLevelString(text): the decoded text, here its object count, or null
tryDecodeLevelString(text) == text.dec

\* const numChecks = Math.max(1, Math.min(200, Math.floor(approxObjects / 10)))
HeuristicChecks(approxObjects) == Max(1, Min(200, approxObjects \div 10))

LevelInit ==
    /\ MainOff
    /\ wPc = [k \in WorkerIds |-> "none"]
    /\ wData = [k \in WorkerIds |-> NoData]
    /\ SimIdle /\ LegacyIdle /\ FetchIdle
    /\ lvPc = "start" /\ levelId \in {"none", "122149930", "other"}
    /\ lastRaw = NoText /\ info = NoInfo
    /\ lvModel = [numChecks |-> 35, note |-> "initial"] /\ lvThrown = "none" /\ epLog = <<>>

\* if (levelId) { try { info = await fetchAndDecodeLevel(...) } else: the default
LevelStart ==
    /\ lvPc = "start"
    /\ IF levelId = "none"
       THEN /\ lvModel' = [numChecks |-> 35, note |-> "default"]
            /\ lvPc' = "done"
            /\ UNCHANGED <<url, lastRaw>>
       ELSE /\ lvPc' = "endpoint"
            /\ url' = 1
            /\ lastRaw' = NoText
            /\ UNCHANGED lvModel
    /\ UNCHANGED <<fPc, retries, attempt, timers, fLog, fErr, fBody>>
    /\ UNCHANGED <<levelId, info, lvThrown, epLog>>
    /\ UNCHANGED <<scanVars, simVars, legacyVars>>

\* for (const url of endpoints): fetchWithTimeout(url, { retries: 2 }) is called
LevelCall ==
    /\ lvPc = "endpoint"
    /\ url <= NUM_ENDPOINTS
    /\ fPc' = "loop" /\ retries' = ENDPOINT_RETRIES /\ attempt' = 1
    /\ timers' = {} /\ fLog' = <<>> /\ fErr' = NoError /\ fBody' = NoText
    /\ lvPc' = "await"
    /\ UNCHANGED <<url, levelId, lastRaw, info, lvModel, lvThrown, epLog>>
    /\ UNCHANGED <<scanVars, simVars, legacyVars>>

\* if (!text || text.length === 0)
EmptyBodyNever(text) == FALSE
EmptyBody(text) == text.len = 0

\* fetchWithTimeout returned: an empty text moves on to the next endpoint
\* (lastRaw = text || lastRaw), any other is decoded and returned
LevelGotText ==
    /\ lvPc = "await"
    /\ fPc = "returned"
    /\ IF EmptyBody(fBody)
       THEN /\ lastRaw' = IF fBody.len > 0 THEN fBody ELSE lastRaw
            /\ url' = url + 1
            /\ epLog' = Append(epLog, "empty")
            /\ lvPc' = "endpoint"
            /\ UNCHANGED info
       ELSE /\ lastRaw' = fBody
            /\ info' = [raw |-> fBody, decoded |-> tryDecodeLevelString(fBody)]
            /\ epLog' = Append(epLog, "text")
            /\ lvPc' = "fs"
            /\ UNCHANGED url
    /\ fPc' = "off"
    /\ UNCHANGED <<retries, attempt, timers, fLog, fErr, fBody>>
    /\ UNCHANGED <<levelId, lvModel, lvThrown>>
    /\ UNCHANGED <<scanVars, simVars, legacyVars>>

\* fetchWithTimeout threw: catch (err) logs and the loop continues
LevelEndpointFailed ==
    /\ lvPc = "await"
    /\ fPc = "thrown"
    /\ url' = url + 1
    /\ epLog' = Append(epLog, "failed")
    /\ lvPc' = "endpoint"
    /\ fPc' = "off"
    /\ UNCHANGED <<retries, attempt, timers, fLog, fErr, fBody>>
    /\ UNCHANGED <<levelId, lastRaw, info, lvModel, lvThrown>>
    /\ UNCHANGED <<scanVars, simVars, legacyVars>>

\* after the loop: return { id, raw: lastRaw || '', decoded: null }
LevelExhausted ==
    /\ lvPc = "endpoint"
    /\ ~(url <= NUM_ENDPOINTS)
    /\ info' = [raw |-> IF lastRaw.len > 0 THEN lastRaw ELSE EmptyText, decoded |-> 0]
    /\ lvPc' = "fs"
    /\ UNCHANGED <<fetchVars, levelId, lastRaw, lvModel, lvThrown, epLog>>
    /\ UNCHANGED <<scanVars, simVars, legacyVars>>

\* the model for a fetched level: Chompstep, the heuristic, or 10 checks
LevelModel(id, inf) ==
    IF id = "122149930" THEN [numChecks |-> 35, note |-> "chompstep"]
    ELSE IF inf.decoded # 0
         THEN [numChecks |-> HeuristicChecks(inf.decoded), note |-> "heuristic"]
         ELSE [numChecks |-> 10, note |-> "fallback-nodata"]

\* the rest of the try: the data directory and files are written, which can
\* throw into the catch (10 checks), then the model is chosen
LevelFinish ==
    /\ lvPc = "fs"
    /\ \E fsOk \in BOOLEAN :
          IF fsOk
          THEN lvModel' = LevelModel(levelId, info) /\ UNCHANGED lvThrown
          ELSE /\ lvModel' = [numChecks |-> 10, note |-> "fallback-error"]
               /\ lvThrown' = "fs"
    /\ lvPc' = "done"
    /\ UNCHANGED <<fetchVars, levelId, lastRaw, info, epLog>>
    /\ UNCHANGED <<scanVars, simVars, legacyVars>>

\* fetchWithTimeout is called with retries: 2, so its loop test never fails
\* before an attempt and FetchUnreachable is not among the steps
LevelNext ==
    \/ LevelStart
    \/ LevelCall
    \/ FetchBegin
    \/ FetchResolve
    \/ FetchReject
    \/ FetchText
    \/ FetchCatch
    \/ FetchRetry
    \/ LevelGotText
    \/ LevelEndpointFailed
    \/ LevelExhausted
    \/ LevelFinish

LevelSpec == LevelInit /\ [][LevelNext]_vars

\* ------------------------------------------------------------------ claim C28
NoBody(log) == \A j \in 1..Len(log) : log[j] \in {"failed", "empty"}
IsFallback(m) == m.numChecks = 10 /\ m.note \in {"fallback-nodata", "fallback-error"}

\* what fetchAndDecodeLevel does, for a run that was given a levelId
C28Fetch ==
    levelId # "none" =>
        /\ Len(epLog) <= NUM_ENDPOINTS
        /\ NoBody(SubSeq(epLog, 1, Len(epLog) - 1))
        /\ lvPc \in {"endpoint", "await"} => url = Len(epLog) + 1 /\ NoBody(epLog)
        /\ lvPc = "await" /\ fPc # "off" => retries = ENDPOINT_RETRIES
        /\ lvPc = "await" /\ fPc = "thrown" => ENABLED LevelEndpointFailed
        /\ lvPc \in {"fs", "done"} =>
              \/ /\ epLog # <<>> /\ epLog[Len(epLog)] = "text"
                 /\ info.raw.from[1] = Len(epLog)
                 /\ info.raw.len >= 1
                 /\ info.decoded = tryDecodeLevelString(info.raw)
              \/ /\ Len(epLog) = NUM_ENDPOINTS /\ NoBody(epLog)
                 /\ info.raw \in {lastRaw, EmptyText}
                 /\ info.raw.len = 0
                 /\ info.decoded = 0
        /\ lvThrown \in {"none", "fs"}

\* the scan always starts with some model
C28Model == lvPc = "done" => lvModel.numChecks >= 1

\* C28 as stated: fetchAndDecodeLevel never rejects, tries the endpoints in
\* order, moves on after a failure or an empty body, stops at the first
\* non-empty body, resolves with decoded = null when every endpoint fails, the
\* scan always has a model, and the 10-check fallback model is used only when
\* the level step throws.
C28Orig ==
    /\ C28Fetch
    /\ C28Model
    /\ lvPc = "done" /\ IsFallback(lvModel) => lvThrown # "none"

\* C28, amended: as above, but the 10-check fallback model is used exactly
\* when the level step throws (which only its file writes do) or when a level
\* other than Chompstep came back with no decoded data, every endpoint having
\* failed included.
C28Thm ==
    /\ C28Fetch
    /\ C28Model
    /\ lvPc = "done" =>
          (IsFallback(lvModel) <=>
              \/ lvThrown = "fs"
              \/ levelId \notin {"none", "122149930"} /\ info.decoded = 0)

C28Wit ==
    /\ lvPc = "done" /\ levelId = "other" /\ lvThrown = "none"
    /\ Len(epLog) = NUM_ENDPOINTS /\ NoBody(epLog)
    /\ \E i, j \in 1..NUM_ENDPOINTS : epLog[i] = "failed" /\ epLog[j] = "empty"
    /\ IsFallback(lvModel)

C28WitText ==
    /\ lvPc = "done" /\ levelId = "other" /\ lvThrown = "none"
    /\ epLog = <<"failed", "empty", "text">>
    /\ info.raw.from = <<3, 2>>
    /\ lvModel = [numChecks |-> 200, note |-> "heuristic"]

====
